---- MODULE Spec2Model ----
(***************************************************************************)
(* Model of the game-completion tracker (src/bot.py).                      *)
(*                                                                         *)
(* GameTracker keeps the ledger in self.data (user id -> folded game name  *)
(* -> tracked game) and mirrors it in the file user_games.json.  Commands  *)
(* are coroutines on one asyncio event loop: a handler runs without        *)
(* interruption between two awaits, and several commands may be suspended  *)
(* at an await at the same time.  The process may be killed at any point,  *)
(* including in the middle of save_data; a restart runs load_data again.   *)
(*                                                                         *)
(* Spec is the tracker under concurrent commands and restarts, the         *)
(* provider answering with the first records of the catalogue.  ShelfSpec  *)
(* is the tracker serving check, show, list and `!game remove` one after   *)
(* the other on a game the provider answered with any list of records.     *)
(*                                                                         *)
(* Timestamps (started_date, date_added) are left out: no command reads    *)
(* them.  Sending a Discord message is modelled by recording it in `out`;  *)
(* failures of the Discord transport itself are not modelled.              *)
(***************************************************************************)
EXTENDS Integers, Sequences, FiniteSets, TLC

\* ------------------------------------------------------------------ bounds

\* Most records one provider fetch returns.
MaxAch == 2
\* Commands issued over one behaviour.
MaxCmds == 2

\* ------------------------------------------------------------------ inputs

\* Command slots: the coroutines that can be alive at once.
Procs == 1..2
Users == {"u1", "u2"}

\* Who types which game name; a name is a sequence of characters.
Targets ==
    { [user |-> "u1", game_name |-> <<"A", "b">>],
      [user |-> "u1", game_name |-> <<"a", "b">>],
      [user |-> "u1", game_name |-> <<"c">>],
      [user |-> "u2", game_name |-> <<"a", "b">>] }

\* Raw provider records (Steam schema entries) of the catalogue: description
\* and rarity are optional keys, and nothing keeps two records from having
\* the same name.
Catalogue ==
    << [name |-> "Win", description |-> "Win the game", rarity |-> 80],
       [name |-> "Win", rarity |-> 5],
       [name |-> "Coins", description |-> "Collect 10 coins"] >>

\* What fetch_steam_achievements can hand back when no request fails: the
\* first records of the catalogue, none when the game is not found.
ProviderResults ==
    { SubSeq(Catalogue, 1, n) : n \in { m \in 0..MaxAch : m <= Len(Catalogue) } }

\* ------------------------------------------------------- pure computations

\* str.lower on one character, and on a name (game_name.lower()).
LowerChar(c) ==
    CASE c = "A" -> "a"
      [] c = "B" -> "b"
      [] OTHER -> c

Fold(name) == [i \in 1..Len(name) |-> LowerChar(name[i])]

\* str(i) for the ids enumerate(achievements, 1) produces: decimal digits,
\* most significant first, no leading zero.
RECURSIVE Str(_)
Str(i) == IF i < 10 THEN <<i>> ELSE Append(Str(i \div 10), i % 10)

\* Achievement ids a user may type: "1", "2", "99".
TypedIds == { <<1>>, <<2>>, <<9, 9>> }

\* dict.get(key, default) on a record.
Get(r, key, default) == IF key \in DOMAIN r THEN r[key] ELSE default

\* d[k] = v on a dict.
Put(d, k, v) == [x \in DOMAIN d \cup {k} |-> IF x = k THEN v ELSE d[x]]

EmptyDict == <<>>

\* The "achievements" dict of a game is kept as the sequence of its values in
\* insertion order; the key of position i is Str(i).
HasId(achievements, id) == \E i \in 1..Len(achievements) : Str(i) = id

IndexOf(achievements, id) == CHOOSE i \in 1..Len(achievements) : Str(i) = id

\* One stored achievement, from a raw record (add_game, lines 152-158).
NewAchievement(raw) ==
    [ name |-> raw.name,
      description |-> Get(raw, "description", "No description available"),
      rarity |-> Get(raw, "rarity", 0),
      completed |-> FALSE ]

\* The entry add_game builds (lines 142-158).
NewGame(game_name, achievements, guide) ==
    [ name |-> game_name,
      achievements |-> [i \in 1..Len(achievements) |-> NewAchievement(achievements[i])],
      guide |-> guide,
      progress |-> 0 ]

\* A check that only ever marks an achievement completed.
Flip_Set(completed) == TRUE

\* achievement["completed"] = not achievement["completed"] (line 303).
Flip(completed) == ~completed

\* A check that flips every achievement of the game.
ToggleAch_All(achievements, id) ==
    [i \in 1..Len(achievements) |-> [achievements[i] EXCEPT !.completed = ~@]]

\* The achievements of a game after toggling id (lines 302-303).
ToggleAch(achievements, id) ==
    [achievements EXCEPT ![IndexOf(achievements, id)].completed = Flip(@)]

\* sum(1 for ach in achievements.values() if ach["completed"])
CompletedCount(achievements) ==
    Cardinality({ i \in 1..Len(achievements) : achievements[i].completed })

\* A percentage cut off after its first decimal.
Percentage_Truncated(completed, total) == (1000 * completed) \div total

\* (completed / total) * 100 as the handlers print it with :.1f, in tenths of
\* a percent (rounded to nearest).
Percentage(completed, total) == (2000 * completed + total) \div (2 * total)

\* ------------------------------------------------------------ durable file

NoFile == [kind |-> "none"]
\* open(..., 'w') has truncated the file and json.dump has not finished: the
\* content is a proper prefix of a JSON document, which json.load rejects.
PartialFile == [kind |-> "partial"]
\* json.dump(data) completed: the ledger's keys are strings and its leaves
\* strings, numbers and booleans, so json.load gives the same ledger back.
FullFile(ledger) == [kind |-> "full", ledger |-> ledger]

\* load_data: the ledger, {} when there is no file; json.load raises on a
\* truncated file and the exception leaves GameTracker.__init__.
LoadRaises(file) == file.kind = "partial"

load_data(file) ==
    CASE file.kind = "none" -> EmptyDict
      [] file.kind = "full" -> file.ledger
      [] OTHER -> EmptyDict

\* ----------------------------------------------------------- external calls

\* fetch_steam_achievements: the records found, or [] when a request or the
\* parsing of its answer raised (lines 66-68).
FetchOutcomes == { [ok |-> TRUE, records |-> r] : r \in ProviderResults } \cup { [ok |-> FALSE] }

\* An except branch that hands back records of an earlier answer.
fetch_steam_achievements_Stale(outcome) ==
    IF outcome.ok THEN outcome.records ELSE SubSeq(Catalogue, 1, 1)

fetch_steam_achievements(outcome) == IF outcome.ok THEN outcome.records ELSE <<>>

\* generate_guide: the generated text, or an exception of the API client.
GuideOutcomes == { [ok |-> TRUE, text |-> "guide"], [ok |-> FALSE] }

\* save_data runs in two steps a kill can separate: open(..., 'w') truncates
\* the file, json.dump then writes the document, or raises part-way (an
\* I/O error, a value json cannot encode) and leaves the truncated file.
\* A failing open is not modelled.
save_data(ok, ledger) == IF ok THEN FullFile(ledger) ELSE PartialFile

\* ------------------------------------------------------ handler computations

Tracked(ledger, user, key) == user \in DOMAIN ledger /\ key \in DOMAIN ledger[user]

\* lines 125-126: if user_id not in self.data: self.data[user_id] = {}
WithUser(ledger, user) ==
    IF user \in DOMAIN ledger THEN ledger ELSE Put(ledger, user, EmptyDict)

\* The test of line 128 on the name as typed.
AlreadyTracking_Unfolded(ledger, user, game_name) == game_name \in DOMAIN ledger[user]

\* line 128: game_name.lower() in self.data[user_id]
AlreadyTracking(ledger, user, game_name) == Fold(game_name) \in DOMAIN ledger[user]

\* lines 142-158: self.data[user_id][game_name.lower()] = {...}
Create(ledger, user, game_name, achievements, guide) ==
    [ledger EXCEPT ![user] = Put(@, Fold(game_name), NewGame(game_name, achievements, guide))]

\* lines 293 and 201: user_id not in self.data or game_name not in self.data[user_id]
GameNotFound(ledger, user, key) == ~Tracked(ledger, user, key)

\* line 297: achievement_id not in ...["achievements"]
AchievementNotFound(ledger, user, key, id) == ~HasId(ledger[user][key].achievements, id)

\* The two error messages of lines 294 and 298 exchanged.
CheckVerdict_Swapped(ledger, user, key, id) ==
    IF GameNotFound(ledger, user, key) THEN "AchievementNotFound"
    ELSE IF AchievementNotFound(ledger, user, key, id) THEN "GameNotFound"
    ELSE "Toggle"

\* lines 293-299: which of its three ways toggle_achievement goes.
CheckVerdict(ledger, user, key, id) ==
    IF GameNotFound(ledger, user, key) THEN "GameNotFound"
    ELSE IF AchievementNotFound(ledger, user, key, id) THEN "AchievementNotFound"
    ELSE "Toggle"

\* line 302-303: the value of achievement["completed"] that `not` reads.
WasCompleted(ledger, user, key, id) ==
    LET achievements == ledger[user][key].achievements
    IN  achievements[IndexOf(achievements, id)].completed

\* A check that also refreshes the stored "progress" of the game.
Toggle_Progress(ledger, user, key, id) ==
    [ledger EXCEPT ![user][key].achievements = ToggleAch(@, id),
                   ![user][key].progress =
                       Percentage(CompletedCount(ToggleAch(ledger[user][key].achievements, id)),
                                  Len(ledger[user][key].achievements))]

\* lines 302-303 on the ledger.
Toggle(ledger, user, key, id) ==
    [ledger EXCEPT ![user][key].achievements = ToggleAch(@, id)]

\* lines 306-309 and 314-322: the "Achievement Update" embed.
AchievementUpdate(p, ledger, user, key, id) ==
    LET achievements == ledger[user][key].achievements
        completed == CompletedCount(achievements)
        total == Len(achievements)
    IN  [ kind |-> "AchievementUpdate", p |-> p, user |-> user, key |-> key, id |-> id,
          status |-> achievements[IndexOf(achievements, id)].completed,
          completed |-> completed, total |-> total,
          percentage |-> Percentage(completed, total) ]

\* lines 162-176: the "Game Added Successfully!" embed.
GameAdded(p, user, key, found) ==
    [kind |-> "GameAdded", p |-> p, user |-> user, key |-> key, found |-> found]

\* lines 178-193: the "Game Added (Manual Mode)" embed of the except branch.
GameAddedManualMode(p, user, key) ==
    [kind |-> "GameAddedManualMode", p |-> p, user |-> user, key |-> key]

\* What the caller sees when an exception leaves the handler.
NoReply(p, user, key) == [kind |-> "NoReply", p |-> p, user |-> user, key |-> key]

\* lines 208-213 and 342-351: completed, total and percentage of one game.
Progress(achievements) ==
    IF Len(achievements) > 0
    THEN [ completed |-> CompletedCount(achievements), total |-> Len(achievements),
           percentage |-> Percentage(CompletedCount(achievements), Len(achievements)) ]
    ELSE [completed |-> 0, total |-> 0, percentage |-> 0]

\* line 232: key=lambda x: (-x[1]["completed"], x[1].get("rarity", 0))
SortKey(ach) == << IF ach.completed THEN -1 ELSE 0, Get(ach, "rarity", 0) >>

KeyLess(a, b) == a[1] < b[1] \/ (a[1] = b[1] /\ a[2] < b[2])

\* A sort that puts an item ahead of the items with an equal key.
Insert_BeforeEquals(sorted, item) ==
    LET before == { i \in 1..Len(sorted) : KeyLess(SortKey(sorted[i].ach), SortKey(item.ach)) }
        n == Cardinality(before)
    IN  [i \in 1..Len(sorted) + 1 |->
            IF i <= n THEN sorted[i] ELSE IF i = n + 1 THEN item ELSE sorted[i - 1]]

\* sorted() is stable: an item goes after every item whose key is not greater.
Insert(sorted, item) ==
    LET after == { i \in 1..Len(sorted) : ~KeyLess(SortKey(item.ach), SortKey(sorted[i].ach)) }
        n == Cardinality(after)
    IN  [i \in 1..Len(sorted) + 1 |->
            IF i <= n THEN sorted[i] ELSE IF i = n + 1 THEN item ELSE sorted[i - 1]]

RECURSIVE SortedPrefix(_, _)
SortedPrefix(achievements, n) ==
    IF n = 0 THEN <<>>
    ELSE Insert(SortedPrefix(achievements, n - 1), [id |-> Str(n), ach |-> achievements[n]])

\* lines 230-233: sorted(achievements.items(), key=...)
sorted_achievements(achievements) == SortedPrefix(achievements, Len(achievements))

\* The ids of a sequence of (id, achievement) pairs.
Ids(sorted) == [i \in 1..Len(sorted) |-> sorted[i].id]

\* lines 236-247: the loop over sorted_achievements appends each line to
\* one of the lists `incomplete` and `completed`.
Incomplete(sorted) == SelectSeq(sorted, LAMBDA x : ~x.ach.completed)
Completed(sorted) == SelectSeq(sorted, LAMBDA x : x.ach.completed)

\* An embed with the field "Completed" ahead of the field "Remaining".
Fields_CompletedFirst(sorted) ==
    (IF Completed(sorted) # <<>>
     THEN << [name |-> "Completed", ids |-> Ids(Completed(sorted))] >> ELSE <<>>)
    \o (IF Incomplete(sorted) # <<>>
        THEN << [name |-> "Remaining", ids |-> Ids(Incomplete(sorted))] >> ELSE <<>>)

\* lines 249-274: the fields of the embed in the order they are added, a
\* list that is empty gets no field.  Texts longer than 1024 characters are
\* cut into several fields that keep this order; text lengths are left out.
Fields(sorted) ==
    (IF Incomplete(sorted) # <<>>
     THEN << [name |-> "Remaining", ids |-> Ids(Incomplete(sorted))] >> ELSE <<>>)
    \o (IF Completed(sorted) # <<>>
        THEN << [name |-> "Completed", ids |-> Ids(Completed(sorted))] >> ELSE <<>>)

\* A show_game that sends a guide written for this call.
ProgressMessage_Regenerated(p, user, key, game) ==
    [ kind |-> "Progress", p |-> p, user |-> user, key |-> key, name |-> game.name,
      percentage |-> Progress(game.achievements).percentage,
      order |-> Ids(sorted_achievements(game.achievements)),
      fields |-> Fields(sorted_achievements(game.achievements)),
      guide |-> "guide of this call" ]

\* lines 205-285: what show_game sends for a tracked game.
ProgressMessage(p, user, key, game) ==
    [ kind |-> "Progress", p |-> p, user |-> user, key |-> key, name |-> game.name,
      percentage |-> Progress(game.achievements).percentage,
      order |-> Ids(sorted_achievements(game.achievements)),
      fields |-> Fields(sorted_achievements(game.achievements)),
      guide |-> game.guide ]

\* lines 334-360: what list_games sends for a user with games.
CollectionMessage(p, user, games) ==
    [ kind |-> "Collection", p |-> p, user |-> user, key |-> <<>>,
      games |-> [k \in DOMAIN games |->
                   [name |-> games[k].name, progress |-> Progress(games[k].achievements)]] ]

Plain(kind, p, user, key) == [kind |-> kind, p |-> p, user |-> user, key |-> key]

\* The subcommands the group registers (the @game.command decorators of
\* lines 120, 195, 287 and 325).
Subcommands == {"add", "show", "check", "list"}

\* lines 109-116: the commands the "Command Guide" field lists.
CommandGuide(p, user, key) ==
    [ kind |-> "CommandGuide", p |-> p, user |-> user, key |-> key,
      lists |-> {"add", "show", "check", "list", "remove"} ]

\* ------------------------------------------------------------------- state

VARIABLES
    data,     \* self.data
    disk,     \* the content of user_games.json
    cog,      \* "loaded", or "failed" when load_data raised at start-up
    pc,       \* per command slot: where its coroutine stands
    loc,      \* per command slot: the handler's arguments and locals
    out,      \* the last message a command sent to its caller
    issued    \* commands started so far

vars == <<data, disk, cog, pc, loc, out, issued>>

NoLocals == [op |-> "none"]
NoMessage == [kind |-> "none"]

\* Files an earlier run can have left: none, or the ledger after one add_game
\* of user u1 that found two achievements.
StartFiles ==
    { NoFile,
      FullFile(Create(WithUser(EmptyDict, "u1"), "u1", <<"A", "b">>,
                      SubSeq(Catalogue, 1, 2), "guide")) }

\* GameTracker.__init__ (lines 22-26) on the file an earlier run left.
Init ==
    /\ disk \in StartFiles
    /\ data = load_data(disk)
    /\ cog = "loaded"
    /\ pc = [p \in Procs |-> "idle"]
    /\ loc = [p \in Procs |-> NoLocals]
    /\ out = NoMessage
    /\ issued = 0

\* The event loop runs one handler at a time: while a handler is inside
\* save_data (a synchronous call) no other coroutine is resumed.
LoopFree == \A q \in Procs : pc[q] # "dumping"

\* A slot takes a new command when it runs none: it never ran one, its last
\* handler returned ("idle") or was left by an exception ("raised").
Free(p) == pc[p] \in {"idle", "raised"}

\* A new command takes the first free slot.
CanStart(p) ==
    /\ cog = "loaded"
    /\ Free(p)
    /\ \A q \in Procs : Free(q) => p <= q
    /\ LoopFree
    /\ issued < MaxCmds

\* ---------------------------------------------------------------- commands

\* A handler hands `message` to Discord in its last call (await ctx.send or
\* await status_message.edit) and is suspended until the call returns.
Reply(p, message) ==
    /\ out' = message
    /\ pc' = [pc EXCEPT ![p] = "replied"]

\* An exception leaves the handler: discord.py logs it, the caller gets no
\* message.
Raise(p, user, key) ==
    /\ out' = NoReply(p, user, key)
    /\ pc' = [pc EXCEPT ![p] = "raised"]

\* add_game up to its first await (lines 123-132).
AddStart(p, user, game_name) ==
    /\ CanStart(p)
    /\ issued' = issued + 1
    /\ data' = WithUser(data, user)
    /\ loc' = [loc EXCEPT ![p] = [op |-> "add", user |-> user, name |-> game_name,
                                  key |-> Fold(game_name), msg |-> issued + 1]]
    /\ IF AlreadyTracking(WithUser(data, user), user, game_name)
       THEN Reply(p, Plain("AlreadyTracking", p, user, Fold(game_name)))
       ELSE /\ pc' = [pc EXCEPT ![p] = "fetching"]
            /\ out' = out
    /\ UNCHANGED <<disk, cog>>

\* add_game from the answer of the provider to the start of json.dump
\* (lines 136-160): generate_guide calls the API client synchronously, so
\* nothing else runs between the fetch and the save.
AddResume(p, fetch, guide) ==
    /\ cog = "loaded"
    /\ pc[p] = "fetching"
    /\ LoopFree
    /\ LET user == loc[p].user
           achievements == fetch_steam_achievements(fetch)
           created == Create(data, user, loc[p].name, achievements, guide.text)
       IN  /\ loc' = [loc EXCEPT ![p] = @ @@ [fetched |-> fetch.ok, guided |-> guide.ok,
                                               found |-> Len(achievements)]]
           /\ IF ~guide.ok
              THEN /\ Reply(p, GameAddedManualMode(p, user, loc[p].key))
                   /\ UNCHANGED <<data, disk>>
              ELSE /\ data' = created
                   /\ disk' = PartialFile
                   /\ pc' = [pc EXCEPT ![p] = "dumping"]
                   /\ out' = out
    /\ UNCHANGED <<cog, issued>>

\* toggle_achievement up to the start of json.dump (lines 290-311).
CheckStart(p, user, game_name, id) ==
    /\ CanStart(p)
    /\ issued' = issued + 1
    /\ LET key == Fold(game_name)
           args == [op |-> "check", user |-> user, name |-> game_name, key |-> key,
                    msg |-> issued + 1, id |-> id]
           verdict == CheckVerdict(data, user, key, id)
       IN  IF verdict # "Toggle"
           THEN /\ loc' = [loc EXCEPT ![p] = args]
                /\ Reply(p, Plain(verdict, p, user, key))
                /\ UNCHANGED <<data, disk>>
           ELSE /\ loc' = [loc EXCEPT ![p] = args @@ [was |-> WasCompleted(data, user, key, id)]]
                /\ data' = Toggle(data, user, key, id)
                /\ disk' = PartialFile
                /\ pc' = [pc EXCEPT ![p] = "dumping"]
                /\ out' = out
    /\ UNCHANGED cog

\* json.dump and what follows it (lines 160-176 and 178-193 of add_game,
\* lines 311-323 of toggle_achievement).
SaveDump(p, dumpOk) ==
    /\ pc[p] = "dumping"
    /\ disk' = save_data(dumpOk, data)
    /\ LET user == loc[p].user
           key == loc[p].key
       IN  IF loc[p].op = "add"
           THEN IF dumpOk
                THEN Reply(p, GameAdded(p, user, key, loc[p].found))
                ELSE Reply(p, GameAddedManualMode(p, user, key))
           ELSE IF dumpOk
                THEN Reply(p, AchievementUpdate(p, data, user, key, loc[p].id))
                ELSE Raise(p, user, key)
    /\ UNCHANGED <<data, cog, loc, issued>>

\* show_game (lines 196-285).
ShowGame(p, user, game_name) ==
    /\ CanStart(p)
    /\ issued' = issued + 1
    /\ LET key == Fold(game_name)
       IN  /\ loc' = [loc EXCEPT ![p] = [op |-> "show", user |-> user, name |-> game_name,
                                         key |-> key, msg |-> issued + 1]]
           /\ IF GameNotFound(data, user, key)
              THEN Reply(p, Plain("GameNotFound", p, user, key))
              ELSE Reply(p, ProgressMessage(p, user, key, data[user][key]))
    /\ UNCHANGED <<data, disk, cog>>

\* list_games (lines 326-360).
ListGames(p, user) ==
    /\ CanStart(p)
    /\ issued' = issued + 1
    /\ loc' = [loc EXCEPT ![p] = [op |-> "list", user |-> user, name |-> <<>>,
                                  key |-> <<>>, msg |-> issued + 1]]
    /\ IF user \notin DOMAIN data \/ DOMAIN data[user] = {}
       THEN Reply(p, Plain("NoGames", p, user, <<>>))
       ELSE Reply(p, CollectionMessage(p, user, data[user]))
    /\ UNCHANGED <<data, disk, cog>>

\* `!game remove <game_name>`: "remove" is none of the Subcommands, so the
\* group itself is invoked (invoke_without_command=True, line 98) and its
\* callback sends the command guide (lines 99-118); it does not look at the
\* words that follow.
GameGroup(p, user, game_name) ==
    /\ "remove" \notin Subcommands
    /\ CanStart(p)
    /\ issued' = issued + 1
    /\ loc' = [loc EXCEPT ![p] = [op |-> "remove", user |-> user, name |-> game_name,
                                  key |-> Fold(game_name), msg |-> issued + 1]]
    /\ Reply(p, CommandGuide(p, user, Fold(game_name)))
    /\ UNCHANGED <<data, disk, cog>>

\* The last await of the handler of slot p returns, and the handler with it.
Finish(p) ==
    /\ cog = "loaded"
    /\ pc[p] = "replied"
    /\ LoopFree
    /\ pc' = [pc EXCEPT ![p] = "idle"]
    /\ loc' = [loc EXCEPT ![p] = NoLocals]
    /\ UNCHANGED <<data, disk, cog, out, issued>>

\* The process is killed and started again: every coroutine is gone and
\* GameTracker.__init__ loads the file (lines 22-26).
Restart ==
    /\ data' = load_data(disk)
    /\ cog' = IF LoadRaises(disk) THEN "failed" ELSE "loaded"
    /\ pc' = [p \in Procs |-> "idle"]
    /\ loc' = [p \in Procs |-> NoLocals]
    /\ UNCHANGED <<disk, out, issued>>

Next ==
    \/ \E p \in Procs, t \in Targets : AddStart(p, t.user, t.game_name)
    \/ \E p \in Procs, fetch \in FetchOutcomes, guide \in GuideOutcomes :
          AddResume(p, fetch, guide)
    \/ \E p \in Procs, t \in Targets, id \in TypedIds :
          CheckStart(p, t.user, t.game_name, id)
    \/ \E p \in Procs, dumpOk \in BOOLEAN : SaveDump(p, dumpOk)
    \/ \E p \in Procs, t \in Targets : ShowGame(p, t.user, t.game_name)
    \/ \E p \in Procs, user \in Users : ListGames(p, user)
    \/ \E p \in Procs : Finish(p)
    \/ Restart

Spec == Init /\ [][Next]_vars

\* ---------------------------------------------------- any provider answer

\* What a provider can answer: any list of catalogue records, in any order
\* and with repetitions.
AnyRecords ==
    UNION { [1..n -> { Catalogue[i] : i \in 1..Len(Catalogue) }] : n \in 0..MaxAch + 1 }

\* The ledger after checks of the achievements at the positions in S of a
\* game just created, one check each.
Checked(ledger, user, key, S) ==
    [ledger EXCEPT ![user][key].achievements =
        [i \in 1..Len(@) |-> [@[i] EXCEPT !.completed = (i \in S)]]]

\* Files an earlier run can have left: user u1 added one game, the provider
\* answered with any list of records, and u1 checked any of them.
ShelfFiles ==
    UNION { { FullFile(Checked(Create(WithUser(EmptyDict, "u1"), "u1", <<"A", "b">>,
                                      records, "guide"),
                               "u1", <<"a", "b">>, S)) : S \in SUBSET (1..Len(records)) }
            : records \in AnyRecords }

ShelfInit ==
    /\ disk \in ShelfFiles
    /\ data = load_data(disk)
    /\ cog = "loaded"
    /\ pc = [p \in Procs |-> "idle"]
    /\ loc = [p \in Procs |-> NoLocals]
    /\ out = NoMessage
    /\ issued = 0

\* The commands that work on games already on the shelf, typed one after
\* the other: each is taken by the first slot once the one before it is over.
ShelfSlot == CHOOSE p \in Procs : \A q \in Procs : p <= q

ShelfNext ==
    \/ \E t \in Targets, id \in TypedIds : CheckStart(ShelfSlot, t.user, t.game_name, id)
    \/ \E dumpOk \in BOOLEAN : SaveDump(ShelfSlot, dumpOk)
    \/ \E t \in Targets : ShowGame(ShelfSlot, t.user, t.game_name)
    \/ \E user \in Users : ListGames(ShelfSlot, user)
    \/ \E t \in Targets : GameGroup(ShelfSlot, t.user, t.game_name)
    \/ Finish(ShelfSlot)

ShelfSpec == ShelfInit /\ [][ShelfNext]_vars

\* ------------------------------------------------------------------ steps

\* This step starts a command `op` in slot p.
Begins(p, op) == issued' = issued + 1 /\ loc'[p].op = op /\ loc'[p].msg = issued'

\* This step is the one in which add_game of slot p writes its entry.
Creates(p) == pc[p] = "fetching" /\ pc'[p] = "dumping"

\* This step is the one in which the handler of slot p makes its last call.
Replies(p) == pc[p] # "replied" /\ pc'[p] = "replied"

\* This step is a restart.
Restarts ==
    /\ data' = load_data(disk)
    /\ cog' = IF LoadRaises(disk) THEN "failed" ELSE "loaded"
    /\ \A p \in Procs : pc'[p] = "idle" /\ loc'[p] = NoLocals
    /\ disk' = disk /\ out' = out /\ issued' = issued

\* The embeds "Game Added Successfully!" and "Achievement Update".
Acknowledgements == {"GameAdded", "AchievementUpdate"}

\* Messages that tell the caller the command did what was asked.
SuccessStyle == Acknowledgements \cup {"GameAddedManualMode"}

Flag(ledger, user, key, id) == WasCompleted(ledger, user, key, id)

\* ----------------------------------------------------------------- claims

\* C1: mutations of one (user, folded name) entry are linearized: of two
\* add_game commands in flight for the same key at most one creates the
\* entry; the step in which an add_game writes its entry never replaces an
\* entry that exists, so nothing acknowledged on that entry is lost.
C1_CreateNeverOverwrites ==
    [][\A p \in Procs : Creates(p) => ~Tracked(data, loc[p].user, loc[p].key)]_vars

\* C2: of two check commands in flight together on the same (user, game, id),
\* one issued right after the other, the later one reads the flag the
\* earlier one wrote, and once both have replied the flag is back at the
\* value the earlier one read, in memory and in the file.
C2_NoLostToggle ==
    \A p, q \in Procs :
        ( /\ pc[p] = "replied" /\ pc[q] = "replied"
          /\ loc[p].op = "check" /\ loc[q].op = "check"
          /\ "was" \in DOMAIN loc[p] /\ "was" \in DOMAIN loc[q]
          /\ loc[p].user = loc[q].user /\ loc[p].key = loc[q].key /\ loc[p].id = loc[q].id
          /\ loc[q].msg = loc[p].msg + 1 )
        => /\ loc[q].was = ~loc[p].was
           /\ Flag(data, loc[p].user, loc[p].key, loc[p].id) = loc[p].was
           /\ disk.kind = "full"
           /\ Flag(disk.ledger, loc[p].user, loc[p].key, loc[p].id) = loc[p].was

C2_Witness ==
    \E p, q \in Procs :
        /\ pc[p] = "replied" /\ pc[q] = "replied"
        /\ loc[p].op = "check" /\ loc[q].op = "check"
        /\ "was" \in DOMAIN loc[p] /\ "was" \in DOMAIN loc[q]
        /\ loc[p].user = loc[q].user /\ loc[p].key = loc[q].key /\ loc[p].id = loc[q].id
        /\ loc[q].msg = loc[p].msg + 1
        /\ out.kind = "AchievementUpdate" /\ out.p = q

\* C3: an add_game for a name whose folding is already a key of the user's
\* games is answered "already tracking" and changes neither the ledger in
\* memory nor the file.
C3_SecondAddRejected ==
    [][\A p \in Procs :
         (Begins(p, "add") /\ Tracked(data, loc'[p].user, Fold(loc'[p].name)))
         => /\ Replies(p)
            /\ out' = Plain("AlreadyTracking", p, loc'[p].user, Fold(loc'[p].name))
            /\ data' = data
            /\ disk' = disk]_vars

C3_Witness ==
    /\ out.kind = "AlreadyTracking"
    /\ pc[out.p] = "replied" /\ loc[out.p].op = "add"
    /\ loc[out.p].name # out.key
    /\ Tracked(data, out.user, out.key)
    /\ data[out.user][out.key].name # loc[out.p].name

\* C4: when generate_guide fails in an add_game, the game is created and
\* saved all the same: once that add_game has replied, the entry is in the
\* ledger in memory and in the file, so show and check find it.
C4_GuideFailureStillCreates ==
    \A p \in Procs :
        (pc[p] = "replied" /\ loc[p].op = "add" /\ "guided" \in DOMAIN loc[p] /\ ~loc[p].guided)
        => /\ Tracked(data, loc[p].user, loc[p].key)
           /\ disk.kind = "full"
           /\ Tracked(disk.ledger, loc[p].user, loc[p].key)

\* C5: a failing provider fetch counts as zero achievements and does not end
\* the add_game: the command goes on to create the entry with an empty
\* achievement mapping, and when the save goes through it replies "game
\* added" with that entry in the file.
C5_ProviderFailureAbsorbed ==
    [][\A p \in Procs :
         LET user == loc[p].user
             key == loc[p].key
         IN  /\ ( /\ pc[p] = "fetching" /\ pc'[p] # "fetching" /\ loc'[p].op = "add"
                  /\ ~loc'[p].fetched /\ loc'[p].guided )
                => /\ Creates(p)
                   /\ loc'[p].found = 0
                   /\ Tracked(data', user, key)
                   /\ data'[user][key].achievements = <<>>
                   /\ data'[user][key].name = loc[p].name
             /\ ( /\ pc[p] = "dumping" /\ loc[p].op = "add" /\ ~loc[p].fetched
                  /\ disk'.kind = "full" )
                => /\ Replies(p)
                   /\ out' = GameAdded(p, user, key, 0)
                   /\ Tracked(disk'.ledger, user, key)
                   /\ disk'.ledger[user][key].achievements = <<>>
                   /\ data' = disk'.ledger]_vars

C5_Witness ==
    /\ out.kind = "GameAdded"
    /\ pc[out.p] = "replied" /\ loc[out.p].op = "add"
    /\ ~loc[out.p].fetched
    /\ disk.kind = "full"
    /\ Tracked(disk.ledger, out.user, out.key)
    /\ disk.ledger[out.user][out.key].achievements = <<>>

\* C6: when add_game or toggle_achievement sends a success acknowledgement
\* the file already holds the whole ledger with that command's change, and a
\* restart after the acknowledgement loads a ledger that has the change.
C6_AcknowledgedIsDurable ==
    [][/\ \A p \in Procs :
            (Replies(p) /\ out'.kind \in Acknowledgements)
            => /\ disk'.kind = "full"
               /\ disk'.ledger = data'
               /\ Tracked(disk'.ledger, out'.user, out'.key)
       /\ (Restarts /\ out.kind \in Acknowledgements)
            => /\ cog' = "loaded"
               /\ Tracked(data', out.user, out.key)
               /\ out.kind = "AchievementUpdate"
                    => Flag(data', out.user, out.key, out.id) = out.status]_vars

\* C7: a save is all-or-nothing: whenever the process is killed, the file is
\* a complete ledger (the one before the save or the one after it), and the
\* load_data of the restart returns it.
C7_SaveAllOrNothing ==
    [][Restarts => /\ ~LoadRaises(disk)
                   /\ cog' = "loaded"
                   /\ disk.kind = "full" => data' = disk.ledger]_vars

\* C8: when writing the file fails in add_game or toggle_achievement, the
\* command ends in a failure the caller can tell (an error message, or an
\* exception leaving the handler) and never in a message that reports the
\* game as added or the achievement as updated.
C8_SaveFailureReported ==
    [][\A p \in Procs :
         (pc[p] = "dumping" /\ pc'[p] # "dumping" /\ ~Restarts /\ disk'.kind # "full")
         => /\ out'.p = p
            /\ out'.kind \notin SuccessStyle]_vars

\* On the ledger in memory, toggling any id of any game flips that flag only
\* and moves the completed count by one; toggling it twice gives the game
\* back, with its completed count and percentage.
C9_FlipTwiceRestores ==
    \A user \in DOMAIN data : \A key \in DOMAIN data[user] : \A id \in TypedIds :
        LET achievements == data[user][key].achievements
            once == ToggleAch(achievements, id)
            twice == ToggleAch(once, id)
            i == IndexOf(achievements, id)
        IN  HasId(achievements, id)
            => /\ once[i].completed = ~achievements[i].completed
               /\ \A j \in 1..Len(achievements) : j # i => once[j] = achievements[j]
               /\ Len(once) = Len(achievements)
               /\ twice = achievements
               /\ Progress(twice) = Progress(achievements)
               /\ Progress(once).completed =
                    Progress(achievements).completed + (IF achievements[i].completed THEN -1 ELSE 1)

\* A check that finds its achievement flips the flag of that achievement,
\* whatever its value, and nothing else in the ledger.
C9_CheckFlips ==
    \A p \in Procs :
        (Begins(p, "check") /\ pc'[p] = "dumping")
        => LET user == loc'[p].user
               key == loc'[p].key
               id == loc'[p].id
           IN  /\ Tracked(data, user, key)
               /\ data' = [data EXCEPT ![user][key].achievements =
                                      ToggleAch(data[user][key].achievements, id)]
               /\ Flag(data', user, key, id) = ~Flag(data, user, key, id)

\* C9: a check on an existing achievement flips its completed flag whatever
\* its value, and toggling is an involution: two checks of the same id
\* restore the flag, the completed count and the percentage.
C9_ToggleInvolution == [][C9_CheckFlips]_vars /\ []C9_FlipTwiceRestores

\* Two checks of the same achievement have run one after the other: the
\* second has replied, and the flag is again what the first one read.
C9_Witness ==
    \E p, q \in Procs :
        /\ pc[p] = "replied" /\ pc[q] = "replied"
        /\ loc[p].op = "check" /\ loc[q].op = "check"
        /\ "was" \in DOMAIN loc[p] /\ "was" \in DOMAIN loc[q]
        /\ loc[p].user = loc[q].user /\ loc[p].key = loc[q].key /\ loc[p].id = loc[q].id
        /\ loc[q].msg = loc[p].msg + 1
        /\ out = AchievementUpdate(q, data, loc[q].user, loc[q].key, loc[q].id)
        /\ out.status = loc[p].was
        /\ out.completed = 0

\* C10: a check of a game that is not tracked is answered "game not found"
\* and a check of an id that is no key of the game's achievements
\* "achievement not found"; neither changes the ledger in memory or the file.
C10_FailedCheckChangesNothing ==
    [][\A p \in Procs :
         Begins(p, "check")
         => LET user == loc'[p].user
                key == Fold(loc'[p].name)
                id == loc'[p].id
            IN  /\ ~Tracked(data, user, key)
                   => /\ Replies(p)
                      /\ out' = Plain("GameNotFound", p, user, key)
                      /\ data' = data /\ disk' = disk
                /\ ( /\ Tracked(data, user, key)
                     /\ id \notin { Str(i) : i \in 1..Len(data[user][key].achievements) } )
                   => /\ Replies(p)
                      /\ out' = Plain("AchievementNotFound", p, user, key)
                      /\ data' = data /\ disk' = disk]_vars

C10_Witness ==
    /\ out.kind = "AchievementNotFound"
    /\ pc[out.p] = "replied" /\ loc[out.p].op = "check"
    /\ loc[out.p].id = <<9, 9>>
    /\ Tracked(data, out.user, out.key)
    /\ Len(data[out.user][out.key].achievements) > 0
    /\ disk = FullFile(data)

\* ------------------------------------------------------- reading a message

\* The completed achievements of a game, counted one by one.
Count(achievements) == Len(SelectSeq(achievements, LAMBDA ach : ach.completed))

\* `percentage`, in tenths of a percent, is a tenth nearest to 100*K/N.
Nearest(percentage, K, N) ==
    /\ 2 * (N * percentage - 1000 * K) <= N
    /\ 2 * (1000 * K - N * percentage) <= N

\* completed, total and percentage are those of `achievements`.
RightProgress(completed, total, percentage, achievements) ==
    /\ total = Len(achievements)
    /\ completed = Count(achievements)
    /\ IF total = 0 THEN percentage = 0 ELSE Nearest(percentage, completed, total)

\* The ids of the fields of an embed, in the order the embed shows them.
RECURSIVE Shown(_)
Shown(fields) == IF fields = <<>> THEN <<>> ELSE Head(fields).ids \o Shown(Tail(fields))

\* In the sequence `ids` of ids of `achievements`, one with the flag `first`
\* never comes after one with the other flag.
GroupedBy(ids, achievements, first) ==
    \A i, j \in 1..Len(ids) :
        i < j => ~( /\ achievements[IndexOf(achievements, ids[i])].completed # first
                    /\ achievements[IndexOf(achievements, ids[j])].completed = first )

\* `ids` holds every id of `achievements` once.
EveryIdOnce(ids, achievements) ==
    /\ Len(ids) = Len(achievements)
    /\ \A n \in 1..Len(achievements) : \E i \in 1..Len(ids) : ids[i] = Str(n)

\* Within one completion status `ids` goes by rarity ascending, no rarity
\* counting as 0, and equal rarities by position of insertion.
RarityThenInsertion(ids, achievements) ==
    \A i, j \in 1..Len(ids) :
        LET m == IndexOf(achievements, ids[i])
            n == IndexOf(achievements, ids[j])
            rm == Get(achievements[m], "rarity", 0)
            rn == Get(achievements[n], "rarity", 0)
        IN  (i < j /\ achievements[m].completed = achievements[n].completed)
            => (rm < rn \/ (rm = rn /\ m < n))

\* ------------------------------------------------------------ claims, cont.

C11_Reported ==
    \A p \in Procs :
        Replies(p)
        => CASE out'.kind = "Progress" ->
                  LET achievements == data[out'.user][out'.key].achievements
                  IN  IF Len(achievements) = 0 THEN out'.percentage = 0
                      ELSE Nearest(out'.percentage, Count(achievements), Len(achievements))
             [] out'.kind = "Collection" ->
                  /\ DOMAIN out'.games = DOMAIN data[out'.user]
                  /\ \A k \in DOMAIN out'.games :
                        RightProgress(out'.games[k].progress.completed,
                                      out'.games[k].progress.total,
                                      out'.games[k].progress.percentage,
                                      data[out'.user][k].achievements)
             [] out'.kind = "AchievementUpdate" ->
                  /\ out'.total >= 1
                  /\ RightProgress(out'.completed, out'.total, out'.percentage,
                                   data[out'.user][out'.key].achievements)
             [] OTHER -> TRUE

C11_DivisorPositive ==
    \A p \in Procs :
        (pc[p] = "dumping" /\ loc[p].op = "check")
        => /\ Tracked(data, loc[p].user, loc[p].key)
           /\ Len(data[loc[p].user][loc[p].key].achievements) >= 1

\* C11: what show_game, toggle_achievement and list_games report for a game
\* with N achievements of which K are completed is K, N and 100*K/N to one
\* decimal, 0 when N = 0; the division of toggle_achievement, which has no
\* guard of its own, is only reached with N >= 1.
C11_ProgressComputed == [][C11_Reported]_vars /\ []C11_DivisorPositive

\* A check has reported 2 of 3, 66.7%.
C11_Witness ==
    /\ out.kind = "AchievementUpdate"
    /\ pc[out.p] = "replied" /\ loc[out.p].op = "check"
    /\ out.completed = 2 /\ out.total = 3 /\ out.percentage = 667

\* C12 as stated: in the sequence sorted() returns in show_game, no
\* completed achievement comes before an incomplete one.
C12_SortedIncompleteFirst ==
    [][\A p \in Procs :
         (Replies(p) /\ out'.kind = "Progress")
         => GroupedBy(out'.order, data[out'.user][out'.key].achievements, FALSE)]_vars

\* C12, amended: the embed of show_game lists every achievement once, the
\* incomplete ones in the field "Remaining" ahead of the completed ones in
\* the field "Completed"; the sequence sorted() returns on the way has the
\* completed ones first.
C12_RemainingShownFirst ==
    [][\A p \in Procs :
         (Replies(p) /\ out'.kind = "Progress")
         => LET achievements == data[out'.user][out'.key].achievements
            IN  /\ EveryIdOnce(Shown(out'.fields), achievements)
                /\ GroupedBy(Shown(out'.fields), achievements, FALSE)
                /\ \A f \in 1..Len(out'.fields) : \A i \in 1..Len(out'.fields[f].ids) :
                      achievements[IndexOf(achievements, out'.fields[f].ids[i])].completed
                        = (out'.fields[f].name = "Completed")
                /\ EveryIdOnce(out'.order, achievements)
                /\ GroupedBy(out'.order, achievements, TRUE)]_vars

\* A game of three achievements, some completed and some not, has been shown.
C12_Witness ==
    /\ out.kind = "Progress"
    /\ pc[out.p] = "replied" /\ loc[out.p].op = "show"
    /\ Len(out.order) = 3
    /\ Len(out.fields) = 2

\* C13: add_game numbers the achievements "1".."N" in the order of the
\* provider's answer, all incomplete, and no later step changes the ids of a
\* tracked game or the achievement an id stands for.
C13_IdsNeverChange ==
    [][/\ \A p \in Procs :
            Creates(p)
            => LET achievements == data'[loc[p].user][loc[p].key].achievements
               IN  /\ Len(achievements) = loc'[p].found
                   /\ \A i \in 1..Len(achievements) : ~achievements[i].completed
                   /\ \E records \in ProviderResults :
                         /\ Len(records) = Len(achievements)
                         /\ \A i \in 1..Len(records) : achievements[i].name = records[i].name
       /\ \A user \in DOMAIN data : \A key \in DOMAIN data[user] :
            (~Restarts /\ Tracked(data', user, key))
            => LET before == data[user][key].achievements
                   after == data'[user][key].achievements
               IN  /\ Len(after) = Len(before)
                   /\ \A i \in 1..Len(before) :
                         /\ after[i].name = before[i].name
                         /\ after[i].description = before[i].description
                         /\ after[i].rarity = before[i].rarity]_vars

\* C14: add_game stores one achievement per distinct name of the provider's
\* answer, so no two achievements of a game it creates have the same name.
C14_NamesUnique ==
    [][\A p \in Procs :
         Creates(p)
         => LET achievements == data'[loc[p].user][loc[p].key].achievements
            IN  \A i, j \in 1..Len(achievements) :
                   i # j => achievements[i].name # achievements[j].name]_vars

\* C15: `!game remove <name>` on a game the user does not track is answered
\* "not tracked" and changes nothing; on a tracked game it takes that entry,
\* and no other, out of the ledger and saves the ledger.
C15_RemoveRemoves ==
    [][\A p \in Procs :
         Begins(p, "remove")
         => LET user == loc'[p].user
                key == Fold(loc'[p].name)
            IN  /\ ~Tracked(data, user, key)
                   => /\ Replies(p) /\ out'.kind = "NotTracked"
                      /\ data' = data /\ disk' = disk
                /\ Tracked(data, user, key)
                   => /\ ~Tracked(data', user, key)
                      /\ \A u \in DOMAIN data : \A k \in DOMAIN data[u] :
                            (u # user \/ k # key)
                            => (Tracked(data', u, k) /\ data'[u][k] = data[u][k])
                      /\ disk' = FullFile(data')]_vars

\* C16: an add_game whose provider call or guide call fails to answer goes
\* on as after a failure of that call alone: when it leaves the calls behind
\* it creates the entry, or else tells the caller that the add failed.
C16_CallFailureIsLocal ==
    [][\A p \in Procs :
         (pc[p] = "fetching" /\ pc'[p] # "fetching" /\ ~Restarts)
         => \/ Creates(p)
            \/ (Replies(p) /\ out'.p = p /\ out'.kind \notin SuccessStyle)]_vars

\* C17: a check that finds its achievement changes the completed flag of
\* that achievement and nothing else in the ledger: not the other fields of
\* any achievement, not the flags of the others, not the guide, name or
\* stored progress of the game, no other game and no other user; saving the
\* file afterwards changes nothing in the ledger either.
C17_CheckTouchesOneFlag ==
    [][\A p \in Procs :
         /\ (Begins(p, "check") /\ pc'[p] = "dumping")
            => LET user == loc'[p].user
                   key == loc'[p].key
                   before == data[user][key]
                   after == data'[user][key]
               IN  /\ DOMAIN data' = DOMAIN data
                   /\ \A u \in DOMAIN data :
                         /\ DOMAIN data'[u] = DOMAIN data[u]
                         /\ \A k \in DOMAIN data[u] :
                               (u # user \/ k # key) => data'[u][k] = data[u][k]
                   /\ DOMAIN after = DOMAIN before
                   /\ after.name = before.name
                   /\ after.guide = before.guide
                   /\ after.progress = before.progress
                   /\ Len(after.achievements) = Len(before.achievements)
                   /\ \A i \in 1..Len(before.achievements) :
                         LET a == before.achievements[i]
                             b == after.achievements[i]
                         IN  /\ DOMAIN b = DOMAIN a
                             /\ b.name = a.name
                             /\ b.description = a.description
                             /\ b.rarity = a.rarity
                             /\ b.completed = IF Str(i) = loc'[p].id THEN ~a.completed
                                              ELSE a.completed
         /\ (pc[p] = "dumping" /\ loc[p].op = "check" /\ pc'[p] \in {"replied", "raised"})
            => data' = data]_vars

\* A check of one of two achievements has been acknowledged while another
\* game is tracked as well.
C17_Witness ==
    /\ out.kind = "AchievementUpdate"
    /\ pc[out.p] = "replied" /\ loc[out.p].op = "check"
    /\ out.completed = 1 /\ out.total = 2
    /\ Tracked(data, out.user, out.key)
    /\ \E u \in DOMAIN data : \E k \in DOMAIN data[u] :
          (u # out.user \/ k # out.key) /\ Len(data[u][k].achievements) > 0

C18_Ordered ==
    \A p \in Procs :
        (Replies(p) /\ out'.kind = "Progress")
        => LET achievements == data[out'.user][out'.key].achievements
           IN  /\ EveryIdOnce(out'.order, achievements)
               /\ RarityThenInsertion(out'.order, achievements)
               /\ RarityThenInsertion(Shown(out'.fields), achievements)

C18_SameAgain ==
    \A p \in Procs :
        ( /\ Begins(p, "show")
          /\ out.kind = "Progress" /\ out.p = p
          /\ out.user = loc'[p].user /\ out.key = loc'[p].key )
        => out' = out

\* C18: among achievements of the same completion status show_game goes by
\* rarity ascending, an achievement without rarity counting as 0, and
\* achievements of equal rarity stay in insertion (id) order; showing the
\* same game again with no command in between gives the same sequence.
C18_RarityThenInsertion == [][C18_Ordered /\ C18_SameAgain]_vars

\* A game with the rarities 5, 0 (none given by the provider) and 5, none
\* completed, has been shown as 2, 1, 3.
C18_Witness ==
    /\ out.kind = "Progress"
    /\ pc[out.p] = "replied" /\ loc[out.p].op = "show"
    /\ out.order = << <<2>>, <<1>>, <<3>> >>
    /\ LET achievements == data[out.user][out.key].achievements
       IN  /\ Len(achievements) = 3
           /\ \A i \in 1..3 : ~achievements[i].completed
           /\ achievements[1].rarity = achievements[3].rarity
           /\ achievements[2].rarity = 0
           /\ achievements[2].rarity < achievements[1].rarity

\* C19: whenever no command is in flight the file holds the ledger that is
\* in memory; stated for the files no failed save has truncated.
C19_QuiescentIsPersisted ==
    (cog = "loaded" /\ ~LoadRaises(disk) /\ \A p \in Procs : Free(p))
    => load_data(disk) = data

\* C20: show_game and list_games, whatever the user and the game, reply at
\* once and leave the ledger in memory and the file as they are; show_game
\* answers "game not found" for a game that is not tracked and otherwise
\* sends the guide stored with the game.
C20_QueriesChangeNothing ==
    [][\A p \in Procs :
         (Begins(p, "show") \/ Begins(p, "list"))
         => /\ data' = data
            /\ disk' = disk
            /\ Replies(p)
            /\ out'.p = p
            /\ loc'[p].op = "show"
               => IF Tracked(data, loc'[p].user, Fold(loc'[p].name))
                  THEN /\ out'.kind = "Progress"
                       /\ out'.guide = data[loc'[p].user][Fold(loc'[p].name)].guide
                  ELSE out'.kind = "GameNotFound"
            /\ loc'[p].op = "list" => out'.kind \in {"Collection", "NoGames"}]_vars

\* A tracked game has been shown with its stored guide, and the file is
\* still the ledger in memory.
C20_Witness ==
    /\ out.kind = "Progress"
    /\ pc[out.p] = "replied" /\ loc[out.p].op = "show"
    /\ Tracked(data, out.user, out.key)
    /\ out.guide = data[out.user][out.key].guide
    /\ disk = FullFile(data)

====
